---- MODULE Spec2Model ----
(***************************************************************************)
(* Model of etl.py: main() runs process_song_data and then                 *)
(* process_log_data against one input root and one output root.            *)
(*                                                                         *)
(* The model starts at the call of main(); each engine job of the run (a   *)
(* read that resolves its path, a write that executes the lazily built     *)
(* query) is one action.  The engine's relational operators are operators  *)
(* of the module, computed as the engine computes them: a nullable column  *)
(* value is Null or Some(v); dropDuplicates keeps one arbitrary row per    *)
(* key; a comparison with Null is never true; a write with the default     *)
(* save mode refuses an existing path; a partition column travels through  *)
(* the directory name and comes back Null when it was Null or empty.       *)
(*                                                                         *)
(* Not modelled: the module-level credential set-up (lines 11-15) and      *)
(* create_spark_session (lines 18-26), which precede the pipeline; and a   *)
(* catalog whose files hold no record at all (a present catalog holds at   *)
(* least one record).                                                      *)
(*                                                                         *)
(* The event timestamp is a 64-bit count of milliseconds; it is carried as *)
(* the pair (s, ms) with ts = 1000 * s + ms, and a timestamp value as the  *)
(* pair (s, us), s being the floor of the seconds in both.  A songplay_id  *)
(* is the 64-bit value part * 2^33 + cnt; it is carried as the pair of its *)
(* two bit fields (part, cnt).                                             *)
(***************************************************************************)
EXTENDS Integers, Sequences, FiniteSets, TLC

VARIABLES
    song_data,   \* the catalog files under input_data: Null (the glob resolves to nothing) or Some(set of records)
    log_data,    \* the log files under input_data: Null or Some(set of records)
    tz,          \* offset in seconds of the process's local time zone
    run,         \* number of calls of main() so far
    pc,          \* the job of main() that runs next, or that failed
    status,      \* "idle", "running", "done" or "failed"
    error,       \* what made the run fail, "none" otherwise
    store,       \* the five datasets under output_data
    writes,      \* per output path, the write jobs started on it in the current run
    joined,      \* the rows of df.join(song_df, ...) in the order they were written
    songRead,    \* state of the songs dataset as seen by the read-back of the current run
    prev         \* how the previous call of main() ended, "none" before the second call

vars == <<song_data, log_data, tz, run, pc, status, error, store, writes, joined, songRead, prev>>

----------------------------------------------------------------------------
(* Bounds *)

MaxSongs == 3        \* records in the catalog input
MaxEvents == 3       \* records in the log input
MaxRuns == 2         \* calls of main() against the same output root
NumPartitions == 2   \* engine partitions of the joined rows

----------------------------------------------------------------------------
(* Nullable values *)

Null == <<>>
Some(v) == <<v>>

----------------------------------------------------------------------------
(* Input records.  A record is already conformed to the declared schema    *)
(* (lines 39-50, 90-109): an absent or mistyped field is Null.             *)

SongPool == <<
    [song_id |-> Some("S1"), title |-> Some("Test"), artist_id |-> Some("A1"),
     artist_name |-> Some("N1"), artist_location |-> Some("L1"),
     artist_latitude |-> Null, artist_longitude |-> Null,
     year |-> Some(2000), duration |-> Some(200)],
    [song_id |-> Some("S2"), title |-> Some("Test"), artist_id |-> Some("A2"),
     artist_name |-> Some("N2"), artist_location |-> Null,
     artist_latitude |-> Some(10), artist_longitude |-> Some(20),
     year |-> Some(2021), duration |-> Some(100)],
    [song_id |-> Some("S1"), title |-> Some("Else"), artist_id |-> Some("A1"),
     artist_name |-> Some("N1b"), artist_location |-> Some("L1"),
     artist_latitude |-> Null, artist_longitude |-> Null,
     year |-> Some(2000), duration |-> Some(200)],
    [song_id |-> Some("S3"), title |-> Some("Else"), artist_id |-> Some(""),
     artist_name |-> Some("N3"), artist_location |-> Null,
     artist_latitude |-> Null, artist_longitude |-> Null,
     year |-> Null, duration |-> Some(300)],
    [song_id |-> Some("S4"), title |-> Null, artist_id |-> Null,
     artist_name |-> Null, artist_location |-> Null,
     artist_latitude |-> Null, artist_longitude |-> Null,
     year |-> Some(0), duration |-> Null] >>

\* 1609459200 s is 2021-01-01T00:00:00Z.
EventPool == <<
    [page |-> Some("NextSong"), song |-> Some("Test"), ts |-> Some([s |-> 1609459200, ms |-> 0]),
     userId |-> Some("U1"), firstName |-> Some("F1"), lastName |-> Some("G1"), gender |-> Some("F"),
     level |-> Some("free"), sessionId |-> Some(1), location |-> Some("X"), userAgent |-> Some("UA")],
    [page |-> Some("NextSong"), song |-> Some("Else"), ts |-> Some([s |-> 1609459199, ms |-> 999]),
     userId |-> Some("U1"), firstName |-> Some("F1"), lastName |-> Some("G1"), gender |-> Some("F"),
     level |-> Some("paid"), sessionId |-> Some(2), location |-> Some("X"), userAgent |-> Some("UA")],
    [page |-> Some("NextSong"), song |-> Null, ts |-> Some([s |-> 1609459200, ms |-> 0]),
     userId |-> Some("U2"), firstName |-> Some("F2"), lastName |-> Null, gender |-> Null,
     level |-> Some("free"), sessionId |-> Some(3), location |-> Null, userAgent |-> Some("UA")],
    [page |-> Some("Home"), song |-> Some("Test"), ts |-> Some([s |-> 1609459200, ms |-> 1]),
     userId |-> Some("U3"), firstName |-> Some("F3"), lastName |-> Some("G3"), gender |-> Some("M"),
     level |-> Some("free"), sessionId |-> Some(4), location |-> Some("Y"), userAgent |-> Some("UA")],
    [page |-> Null, song |-> Some("Test"), ts |-> Some([s |-> 1609459200, ms |-> 2]),
     userId |-> Some("U4"), firstName |-> Null, lastName |-> Null, gender |-> Null,
     level |-> Some("paid"), sessionId |-> Some(5), location |-> Some("Y"), userAgent |-> Null],
    [page |-> Some("NextSong"), song |-> Some("Test"), ts |-> Null,
     userId |-> Some("U5"), firstName |-> Some("F5"), lastName |-> Some("G5"), gender |-> Some("M"),
     level |-> Some("free"), sessionId |-> Some(6), location |-> Some("X"), userAgent |-> Some("UA")] >>

TimeZones == {0, -18000}

Tables == {"songs", "artists", "users", "time", "songplays"}

----------------------------------------------------------------------------
(* Calendar decomposition of a timestamp in the local time zone            *)
(* (hour, dayofmonth, weekofyear, month, year, dayofweek of lines 134-139  *)
(* and 161-162).                                                           *)

LocalSeconds(t, off) == t.s + off
EpochDay(t, off) == LocalSeconds(t, off) \div 86400

\* Civil date of a day number counted from 1970-01-01.
CivilFromDays(z0) ==
    LET z == z0 + 719468
        era == z \div 146097
        doe == z - era * 146097
        yoe == (doe - doe \div 1460 + doe \div 36524 - doe \div 146096) \div 365
        doy == doe - (365 * yoe + yoe \div 4 - yoe \div 100)
        mp == (5 * doy + 2) \div 153
        d == doy - (153 * mp + 2) \div 5 + 1
        m == IF mp < 10 THEN mp + 3 ELSE mp - 9
        y == yoe + era * 400 + (IF m <= 2 THEN 1 ELSE 0)
    IN  [y |-> y, m |-> m, d |-> d]

DaysFromCivil(y0, m, d) ==
    LET y == IF m <= 2 THEN y0 - 1 ELSE y0
        era == y \div 400
        yoe == y - era * 400
        doy == (153 * (IF m > 2 THEN m - 3 ELSE m + 9) + 2) \div 5 + d - 1
        doe == yoe * 365 + yoe \div 4 - yoe \div 100 + doy
    IN  era * 146097 + doe - 719468

Year(t, off) == CivilFromDays(EpochDay(t, off)).y
Month(t, off) == CivilFromDays(EpochDay(t, off)).m
DayOfMonth(t, off) == CivilFromDays(EpochDay(t, off)).d
Hour(t, off) == (LocalSeconds(t, off) % 86400) \div 3600

\* 1 = Sunday ... 7 = Saturday; 1970-01-01 was a Thursday.
DayOfWeek(t, off) == ((EpochDay(t, off) + 4) % 7) + 1

WeeksInYear(y) ==
    LET P(v) == (v + v \div 4 - v \div 100 + v \div 400) % 7
    IN  IF P(y) = 4 \/ P(y - 1) = 3 THEN 53 ELSE 52

\* ISO 8601 week number.
WeekOfYear(t, off) ==
    LET day == EpochDay(t, off)
        y == CivilFromDays(day).y
        ordinal == day - DaysFromCivil(y, 1, 1) + 1
        isoWd == ((day + 3) % 7) + 1
        w == (ordinal - isoWd + 10) \div 7
    IN  IF w < 1 THEN WeeksInYear(y - 1)
        ELSE IF w > WeeksInYear(y) THEN 1
        ELSE w

----------------------------------------------------------------------------
(* Readers *)

\* Line 112: df.filter('page == "NextSong"'); a Null page compares to Null, which is not true.
FilterPageNotHome(e) == e.page # Some("Home")
FilterPage(e) == e.page = Some("NextSong")

\* The records the catalog reader yields (lines 36-50).
SongRecords == IF song_data = Null THEN {} ELSE {SongPool[i] : i \in song_data[1]}

\* The positions of the log records that pass the filter (lines 87-112).
\* A record is named by its position in the batch.
NextSongEvents == IF log_data = Null THEN {} ELSE {i \in log_data[1] : FilterPage(EventPool[i])}

----------------------------------------------------------------------------
(* Dimension builders *)

\* dropDuplicates([key]): every result the engine may produce, one arbitrary
\* row kept for each value of the key column (Null is one value of it).
DropDuplicatesWholeRow(rows, key) == {rows}
DropDuplicates(rows, key) ==
    {T \in SUBSET rows :
        /\ \A r \in rows : \E t \in T : t[key] = r[key]
        /\ \A a, b \in T : a[key] = b[key] => a = b}

\* Lines 53-59.
SongsProjection(r) ==
    [song_id |-> r.song_id, title |-> r.title, artist_id |-> r.artist_id,
     year |-> r.year, duration |-> r.duration]

\* Lines 67-73.
ArtistsProjection(r) ==
    [artist_id |-> r.artist_id, name |-> r.artist_name, location |-> r.artist_location,
     latitude |-> r.artist_latitude, longitude |-> r.artist_longitude]

\* Lines 115-121.
UsersProjection(e) ==
    [user_id |-> e.userId, first_name |-> e.firstName, last_name |-> e.lastName,
     gender |-> e.gender, level |-> e.level]

\* Lines 128-129: get_timestamp(col('ts') / 1000), that is
\* datetime.fromtimestamp(x) of the double x nearest to ts / 1000.

\* The quotient num / den (den > 0, num >= 0) rounded to the nearest
\* integer, a tie to the even one.
RoundHalfEven(num, den) ==
    LET q == num \div den
        r == num % den
    IN  IF 2 * r > den \/ (2 * r = den /\ q % 2 = 1) THEN q + 1 ELSE q

\* The function raises on None, and on a value whose local date is not
\* within the years 1..9999 or whose previous local day (which it probes
\* for a repeated hour) is before year 1.
UdfRaises(ts, off) ==
    \/ ts = Null
    \/ CivilFromDays(EpochDay(ts[1], off) - 1).y < 1
    \/ CivilFromDays(EpochDay(ts[1], off)).y > 9999

\* The seconds and microseconds of the double nearest to a / 1000 for a
\* count a > 0 of milliseconds: the double is n / 2^k for the k that gives
\* n 53 significant bits, and the microseconds are its fraction rounded
\* half to even.
DoubleSeconds(a) ==
    LET k == CHOOSE j \in 0..62 : 2^52 * 1000 <= a * 2^j /\ a * 2^j < 2^53 * 1000
        n == RoundHalfEven(a * 2^k, 1000)
    IN  [s |-> n \div 2^k, us |-> RoundHalfEven((n % 2^k) * 1000000, 2^k)]

\* The timestamp of a ts on which the function does not raise.  While the
\* seconds fit in 32 bits the double is nearer to ts / 1000 than half a
\* microsecond, and the milliseconds survive exactly; beyond, the
\* microseconds are those of the rounded double.
GetTimestamp(ts) ==
    LET t == ts[1]
        a == 1000 * t.s + t.ms
        pos == DoubleSeconds(a)
        neg == DoubleSeconds(-a)
    IN  IF t.s \in -2147483647..2147483647
          THEN Some([s |-> t.s, us |-> t.ms * 1000])
        ELSE IF a > 0
          THEN Some(IF pos.us >= 1000000
                      THEN [s |-> pos.s + 1, us |-> pos.us - 1000000]
                      ELSE pos)
        ELSE Some(IF neg.us > 0
                      THEN [s |-> -neg.s - 1, us |-> 1000000 - neg.us]
                      ELSE [s |-> -neg.s, us |-> 0])

\* Lines 132-140: one row of the time table from a timestamp column value.
TimeRow(t, off) ==
    [start_time |-> t,
     hour |-> Some(Hour(t[1], off)),
     day |-> Some(DayOfMonth(t[1], off)),
     week |-> Some(WeekOfYear(t[1], off)),
     month |-> Some(Month(t[1], off)),
     year |-> Some(Year(t[1], off)),
     weekday |-> Some(DayOfWeek(t[1], off))]

----------------------------------------------------------------------------
(* Partitioned writer and the read-back *)

\* .write.parquet(path) with no mode: the default save mode refuses a path that exists.
PathAvailable(ds) == ds.status = "absent"

\* partitionBy: the value of a partition column is kept in the directory
\* name only; Null and the empty string share one directory name, which is
\* read back as Null.
PartitionValue(v) == IF v = Null \/ v = Some("") THEN Null ELSE v

\* Lines 62-64: the songs rows as persisted under year=.../artist_id=...
PersistSongs(rows) == {[r EXCEPT !.artist_id = PartitionValue(@)] : r \in rows}

\* A dataset under output_data.
NoDataset(rows) == [status |-> "absent", by |-> 0, rows |-> rows]
Committed(rows, r) == [status |-> "committed", by |-> r, rows |-> rows]
\* What a job that fails while writing may leave at its path.
Broken(rows, left, r) == [status |-> left, by |-> (IF left = "absent" THEN 0 ELSE r), rows |-> rows]

----------------------------------------------------------------------------
(* Fact builder *)

\* Line 156: df.song == song_df.title; an inner join keeps the pairs for
\* which the comparison is true, and a comparison with Null is not.
JoinConditionNullSafe(e, s) == e.song = s.title
JoinConditionNone(e, s) == TRUE
JoinCondition(e, s) == e.song # Null /\ s.title # Null /\ e.song = s.title

Join(evs, songs) ==
    {[ev |-> i, song |-> s] : <<i, s>> \in {x \in evs \X songs : JoinCondition(EventPool[x[1]], x[2])}}

\* Line 157: monotonically_increasing_id(): the partition index in the upper
\* bits, the position of the row within its partition in the lower 33 bits.
MonotonicallyIncreasingIdLocal(p, k) == [part |-> 0, cnt |-> k]
MonotonicallyIncreasingId(p, k) == [part |-> p, cnt |-> k]

\* Lines 158-170: one row of the songplays table from a joined row.
SongplayRowBareYear(j, id, off) ==
    LET e == EventPool[j.ev]
        t == GetTimestamp(e.ts)
    IN  [songplay_id |-> id, start_time |-> t,
         year |-> j.song.year, month |-> Some(Month(t[1], off)),
         user_id |-> e.userId, level |-> e.level,
         song_id |-> j.song.song_id, artist_id |-> j.song.artist_id,
         session_id |-> e.sessionId, location |-> e.location, user_agent |-> e.userAgent]
SongplayRow(j, id, off) ==
    LET e == EventPool[j.ev]
        t == GetTimestamp(e.ts)
    IN  [songplay_id |-> id, start_time |-> t,
         year |-> Some(Year(t[1], off)), month |-> Some(Month(t[1], off)),
         user_id |-> e.userId, level |-> e.level,
         song_id |-> j.song.song_id, artist_id |-> j.song.artist_id,
         session_id |-> e.sessionId, location |-> e.location, user_agent |-> e.userAgent]

\* The orders in which the engine may produce the rows of a set.
Orderings(S) ==
    {q \in [1..Cardinality(S) -> S] : \A a, b \in 1..Cardinality(S) : q[a] = q[b] => a = b}

\* Position of row n of q within its partition under the assignment part.
PositionInPartition(part, n) == Cardinality({m \in 1..(n - 1) : part[m] = part[n]})

\* The songplays rows for the joined rows q (in that order) distributed
\* over the partitions by part.
SongplayRows(q, part, off) ==
    [n \in 1..Len(q) |->
        SongplayRow(q[n], MonotonicallyIncreasingId(part[n], PositionInPartition(part, n)), off)]

----------------------------------------------------------------------------
(* main(), lines 178-187 *)

\* The jobs of a run in program order: process_song_data (lines 186, 29-77)
\* and then process_log_data (lines 187, 80-175).
FirstJobLogData == "read_log_data"
FirstJob == "read_song_data"

NextJob(job) ==
    CASE job = "read_song_data" -> "write_songs"
      [] job = "write_songs" -> "write_artists"
      [] job = "write_artists" -> "read_log_data"
      [] job = "read_log_data" -> "write_users"
      [] job = "write_users" -> "write_time"
      [] job = "write_time" -> "read_songs"
      [] job = "read_songs" -> "write_songplays"
      [] job = "write_songplays" -> "end"

\* An exception is caught nowhere: it ends the run where it is raised, and
\* what the run has written stays.
OutputAfterAbortRolledBack(st, r) ==
    [t \in Tables |-> IF st[t].by = r THEN NoDataset(st[t].rows) ELSE st[t]]
OutputAfterAbort(st, r) == st

EmptyStore ==
    [t \in Tables |-> NoDataset(IF t = "songplays" THEN <<>> ELSE {})]

Init ==
    /\ song_data \in {Null} \cup
          {Some(S) : S \in {X \in SUBSET (1..Len(SongPool)) : Cardinality(X) \in 1..MaxSongs}}
    /\ log_data \in {Null} \cup
          {Some(S) : S \in {X \in SUBSET (1..Len(EventPool)) : Cardinality(X) <= MaxEvents}}
    /\ tz \in TimeZones
    /\ run = 0
    /\ pc = "end"
    /\ status = "idle"
    /\ error = "none"
    /\ store = EmptyStore
    /\ writes = [t \in Tables |-> 0]
    /\ joined = <<>>
    /\ songRead = "none"
    /\ prev = "none"

Running(job) == status = "running" /\ pc = job

\* The run goes on with the next job.
Proceed ==
    /\ pc' = NextJob(pc)
    /\ status' = IF NextJob(pc) = "end" THEN "done" ELSE "running"
    /\ error' = "none"

\* The job raises; pc stays at the job that failed.
Abort(why) ==
    /\ pc' = pc
    /\ status' = "failed"
    /\ error' = why

\* main() is called (again) with the same input root and output root.
StartMain ==
    /\ status # "running"
    /\ run < MaxRuns
    /\ run' = run + 1
    /\ pc' = FirstJob
    /\ status' = "running"
    /\ error' = "none"
    /\ writes' = [t \in Tables |-> 0]
    /\ joined' = <<>>
    /\ songRead' = "none"
    /\ prev' = (IF run = 0 THEN "none" ELSE status)
    /\ UNCHANGED <<song_data, log_data, tz, store>>

\* Lines 36-50: the catalog path is resolved; a glob that matches nothing raises.
ReadSongData ==
    /\ Running("read_song_data")
    /\ IF song_data = Null THEN Abort("no_input") ELSE Proceed
    /\ store' = (IF song_data = Null THEN OutputAfterAbort(store, run) ELSE store)
    /\ UNCHANGED <<song_data, log_data, tz, run, writes, joined, songRead, prev>>

\* A write job on table t whose query may produce any of the row sets in
\* results; udfFails says that a user function raises while the job runs.
\* The job either finds the path taken, fails while writing (a storage
\* error, or the user function), or commits one of its results.
WriteJob(t, results, udfFails) ==
    /\ writes' = [writes EXCEPT ![t] = @ + 1]
    /\ IF ~PathAvailable(store[t])
       THEN /\ Abort("path_exists")
            /\ store' = OutputAfterAbort(store, run)
       ELSE \/ /\ ~udfFails
               /\ \E rows \in results : store' = [store EXCEPT ![t] = Committed(rows, run)]
               /\ Proceed
            \/ /\ \E left \in {"absent", "partial"} :
                     store' = OutputAfterAbort([store EXCEPT ![t] = Broken(store[t].rows, left, run)], run)
               /\ Abort(IF udfFails THEN "udf" ELSE "storage")

\* Lines 53-64.
WriteSongs ==
    /\ Running("write_songs")
    /\ WriteJob("songs",
                {PersistSongs(T) : T \in DropDuplicates({SongsProjection(r) : r \in SongRecords}, "song_id")},
                FALSE)
    /\ UNCHANGED <<song_data, log_data, tz, run, joined, songRead, prev>>

\* Lines 67-77.
WriteArtists ==
    /\ Running("write_artists")
    /\ WriteJob("artists",
                DropDuplicates({ArtistsProjection(r) : r \in SongRecords}, "artist_id"),
                FALSE)
    /\ UNCHANGED <<song_data, log_data, tz, run, joined, songRead, prev>>

\* Lines 87-112: the log path is resolved; a glob that matches nothing raises.
ReadLogData ==
    /\ Running("read_log_data")
    /\ IF log_data = Null THEN Abort("no_input") ELSE Proceed
    /\ store' = (IF log_data = Null THEN OutputAfterAbort(store, run) ELSE store)
    /\ UNCHANGED <<song_data, log_data, tz, run, writes, joined, songRead, prev>>

\* Lines 115-125.
WriteUsers ==
    /\ Running("write_users")
    /\ WriteJob("users",
                DropDuplicates({UsersProjection(EventPool[i]) : i \in NextSongEvents}, "user_id"),
                FALSE)
    /\ UNCHANGED <<song_data, log_data, tz, run, joined, songRead, prev>>

\* Lines 128-145.
WriteTime ==
    /\ Running("write_time")
    /\ LET evs == NextSongEvents
           bad == \E i \in evs : UdfRaises(EventPool[i].ts, tz)
           rows == IF bad THEN {} ELSE {TimeRow(GetTimestamp(EventPool[i].ts), tz) : i \in evs}
       IN  WriteJob("time", DropDuplicates(rows, "start_time"), bad)
    /\ UNCHANGED <<song_data, log_data, tz, run, joined, songRead, prev>>

\* Line 148: the persisted songs dataset is opened; it raises when there is
\* none to read.
ReadSongs ==
    /\ Running("read_songs")
    /\ songRead' = store["songs"].status
    /\ IF store["songs"].status = "committed" THEN Proceed ELSE Abort("no_songs")
    /\ store' = (IF store["songs"].status = "committed" THEN store ELSE OutputAfterAbort(store, run))
    /\ UNCHANGED <<song_data, log_data, tz, run, writes, joined, prev>>

\* Lines 156-175: the join, the surrogate key and the projection run when
\* the table is written; the engine fixes the order of the joined rows and
\* their partitions.
WriteSongplays ==
    /\ Running("write_songplays")
    /\ \E q \in Orderings(Join(NextSongEvents, store["songs"].rows)) :
         \E part \in [1..Len(q) -> 0..(NumPartitions - 1)] :
            /\ WriteJob("songplays", {SongplayRows(q, part, tz)}, FALSE)
            /\ joined' = IF status' = "done" THEN q ELSE <<>>
    /\ UNCHANGED <<song_data, log_data, tz, run, songRead, prev>>

Next ==
    \/ StartMain
    \/ ReadSongData
    \/ WriteSongs
    \/ WriteArtists
    \/ ReadLogData
    \/ WriteUsers
    \/ WriteTime
    \/ ReadSongs
    \/ WriteSongplays

Spec == Init /\ [][Next]_vars

----------------------------------------------------------------------------
(* Properties *)

Done == status = "done"
LogRecords == IF log_data = Null THEN {} ELSE log_data[1]
IsNextSong(i) == EventPool[i].page = Some("NextSong")
SongsTable == store["songs"].rows
ArtistsTable == store["artists"].rows
UsersTable == store["users"].rows
TimeTable == store["time"].rows
SongplaysTable == store["songplays"].rows
IsCommitted(t) == store[t].status = "committed"

\* The positions of the songplays rows that come from log record i.
RowsOfEvent(i) == {n \in 1..Len(joined) : joined[n].ev = i}

\* The persisted songs whose title equals the song title of log record i.
TitleMatches(i) ==
    {s \in SongsTable :
        /\ EventPool[i].song # Null
        /\ s.title # Null
        /\ s.title[1] = EventPool[i].song[1]}

UniqueOn(rows, key) == \A a, b \in rows : a[key] = b[key] => a = b

\* C1: in every written dimension table no two rows share the natural key:
\* song_id in songs, artist_id in artists, user_id in users, start_time in time.
C1_UniqueNaturalKeys ==
    /\ IsCommitted("songs") => UniqueOn(SongsTable, "song_id")
    /\ IsCommitted("artists") => UniqueOn(ArtistsTable, "artist_id")
    /\ IsCommitted("users") => UniqueOn(UsersTable, "user_id")
    /\ IsCommitted("time") => UniqueOn(TimeTable, "start_time")

\* A completed run whose inputs repeat a song_id, an artist_id, a user_id and a start_time.
C1_Witness ==
    /\ Done
    /\ \E r1, r2 \in SongRecords :
          r1 # r2 /\ r1.song_id = r2.song_id /\ r1.artist_id = r2.artist_id
    /\ \E i, j \in NextSongEvents : i # j /\ EventPool[i].userId = EventPool[j].userId
    /\ \E i, j \in NextSongEvents : i # j /\ EventPool[i].ts = EventPool[j].ts

\* C2: after a completed run, a NextSong event whose song title is the title
\* of exactly one persisted song has exactly one songplays row, and that row
\* carries the event's timestamp as start_time and the song_id and artist_id
\* of that song.
C2_JoinCorrectness ==
    Done =>
        \A i \in LogRecords :
            (IsNextSong(i) /\ Cardinality(TitleMatches(i)) = 1) =>
                /\ Cardinality(RowsOfEvent(i)) = 1
                /\ \A n \in RowsOfEvent(i) : \A s \in TitleMatches(i) :
                      /\ SongplaysTable[n].start_time = GetTimestamp(EventPool[i].ts)
                      /\ SongplaysTable[n].song_id = s.song_id
                      /\ SongplaysTable[n].artist_id = s.artist_id

\* A completed run with an event that matches exactly one of several persisted songs.
C2_Witness ==
    /\ Done
    /\ Cardinality(SongsTable) >= 2
    /\ \E i \in LogRecords : IsNextSong(i) /\ Cardinality(TitleMatches(i)) = 1

\* C3: after a completed run, an event whose song title is the title of no
\* persisted song (a Null title included) has no songplays row; and whatever
\* the events miss, the songplays job can complete.
C3_DropRule ==
    /\ Done => \A i \in LogRecords : TitleMatches(i) = {} => RowsOfEvent(i) = {}
    /\ Running("write_songplays") => ENABLED (WriteSongplays /\ status' = "done")

\* A completed run with a NextSong event without a title, one whose title
\* matches nothing, and one that is matched.
C3_Witness ==
    /\ Done
    /\ \E i \in LogRecords : IsNextSong(i) /\ EventPool[i].song = Null
    /\ \E i \in LogRecords : IsNextSong(i) /\ EventPool[i].song # Null /\ TitleMatches(i) = {}
    /\ Len(joined) > 0

\* C4 (as claimed): after a completed run, every songplays row's song_id is
\* the song_id of a row of the songs table, and its artist_id is the
\* artist_id of a row of the artists table, both written by that run.
C4_ReferentialIntegrity ==
    Done =>
        /\ store["songs"].by = run /\ store["artists"].by = run
        /\ \A n \in 1..Len(SongplaysTable) :
              /\ SongplaysTable[n].song_id \in {s.song_id : s \in SongsTable}
              /\ SongplaysTable[n].artist_id \in {a.artist_id : a \in ArtistsTable}

\* C5 (as claimed): a second call of main() after a completed one, on the
\* same input and output root and without an input or storage failure of
\* its own, completes, and each of the five tables is then the one that this
\* run wrote.
C5_RerunOverwrites ==
    (run >= 2 /\ prev = "done" /\ status \in {"done", "failed"}
        /\ error \notin {"no_input", "storage", "udf"}) =>
            /\ status = "done"
            /\ \A t \in Tables : IsCommitted(t) /\ store[t].by = run

\* The table written by each write job, and the write jobs in program order.
JobOrder == <<"read_song_data", "write_songs", "write_artists", "read_log_data",
              "write_users", "write_time", "read_songs", "write_songplays">>
JobIndex(job) == CHOOSE k \in 1..Len(JobOrder) : JobOrder[k] = job
WriteJobOf(t) == "write_" \o t

\* C6 (as claimed): when a run fails, none of the five tables written by
\* that run remains persisted.
C6_NoPartialCommit ==
    status = "failed" => \A t \in Tables : ~(IsCommitted(t) /\ store[t].by = run)

\* C6 (amended): when a run fails at a job, every table whose write job
\* precedes it stays persisted as that run wrote it, and no write job after
\* it is started.
C6_AbortKeepsEarlierTables ==
    status = "failed" =>
        \A t \in Tables :
            /\ JobIndex(WriteJobOf(t)) < JobIndex(pc) =>
                  IsCommitted(t) /\ store[t].by = run /\ writes[t] = 1
            /\ JobIndex(WriteJobOf(t)) > JobIndex(pc) =>
                  writes[t] = 0 /\ store[t].by # run

\* A run that failed in process_log_data after process_song_data had written its tables.
C6_Witness ==
    /\ status = "failed"
    /\ JobIndex(pc) >= JobIndex("read_log_data")
    /\ IsCommitted("songs") /\ store["songs"].by = run
    /\ IsCommitted("artists") /\ store["artists"].by = run
    /\ ~IsCommitted("songplays")

\* C7: no two rows of a written songplays table have the same songplay_id,
\* however the joined rows are distributed over the partitions, and within
\* a partition the ids increase in row order.
C7_UniqueSongplayId ==
    IsCommitted("songplays") =>
        \A n, m \in 1..Len(SongplaysTable) :
            n < m =>
                /\ SongplaysTable[n].songplay_id # SongplaysTable[m].songplay_id
                /\ SongplaysTable[n].songplay_id.part = SongplaysTable[m].songplay_id.part =>
                      SongplaysTable[n].songplay_id.cnt < SongplaysTable[m].songplay_id.cnt

\* A written songplays table with two rows in one partition and a row of
\* another partition that has the same partition-local counter as one of them.
C7_Witness ==
    /\ IsCommitted("songplays")
    /\ \E n, m, k \in 1..Len(SongplaysTable) :
          /\ n < m
          /\ SongplaysTable[n].songplay_id.part = SongplaysTable[m].songplay_id.part
          /\ SongplaysTable[k].songplay_id.part # SongplaysTable[n].songplay_id.part
          /\ SongplaysTable[k].songplay_id.cnt = SongplaysTable[n].songplay_id.cnt

\* C8: in every row of the songplays table and of the time table, year and
\* month are the year and month of the calendar decomposition of the row's
\* own start_time.
C8_PartitionColumnsFromStartTime ==
    /\ IsCommitted("songplays") =>
          \A n \in 1..Len(SongplaysTable) :
              /\ SongplaysTable[n].year = Some(Year(SongplaysTable[n].start_time[1], tz))
              /\ SongplaysTable[n].month = Some(Month(SongplaysTable[n].start_time[1], tz))
    /\ IsCommitted("time") =>
          \A r \in TimeTable :
              /\ r.year = Some(Year(r.start_time[1], tz))
              /\ r.month = Some(Month(r.start_time[1], tz))

\* Written songplays rows of two different months, one of them for a song
\* whose own year column differs from the year of the play.
C8_Witness ==
    /\ IsCommitted("songplays") /\ IsCommitted("time")
    /\ \E n, m \in 1..Len(SongplaysTable) : SongplaysTable[n].month # SongplaysTable[m].month
    /\ \E n \in 1..Len(SongplaysTable) : joined[n].song.year # SongplaysTable[n].year

\* C9: every row of the users, time and songplays tables comes from a log
\* record whose page is "NextSong"; a record with another page or without
\* one contributes no row.
C9_OnlyNextSong ==
    /\ IsCommitted("users") =>
          \A u \in UsersTable :
              \E i \in LogRecords : IsNextSong(i) /\ u = UsersProjection(EventPool[i])
    /\ IsCommitted("time") =>
          \A r \in TimeTable :
              \E i \in LogRecords :
                  IsNextSong(i) /\ EventPool[i].ts # Null /\ r.start_time = GetTimestamp(EventPool[i].ts)
    /\ IsCommitted("songplays") =>
          /\ \A n \in 1..Len(joined) : joined[n].ev \in LogRecords /\ IsNextSong(joined[n].ev)
          /\ \A i \in LogRecords : ~IsNextSong(i) => RowsOfEvent(i) = {}

\* A completed run over a NextSong record that is played, a record of
\* another page and a record without a page, both with a matching title.
C9_Witness ==
    /\ Done
    /\ Len(joined) > 0
    /\ \E i \in LogRecords :
          EventPool[i].page # Null /\ ~IsNextSong(i) /\ TitleMatches(i) # {}
    /\ \E i \in LogRecords : EventPool[i].page = Null /\ TitleMatches(i) # {}

\* C10: in a run of main() the songs dataset is read back only after the
\* songs write of the same run has completed, so the read never sees it
\* missing or partly written; and no output path is written more than once
\* in a run.
C10_ReadAfterWrite ==
    /\ songRead # "none" =>
          /\ songRead = "committed"
          /\ store["songs"].by = run
          /\ writes["songs"] = 1
    /\ \A t \in Tables : writes[t] <= 1

\* A run that has read the songs dataset back and completed.
C10_Witness == Done /\ songRead = "committed" /\ \A t \in Tables : writes[t] = 1

====
